---- MODULE Spec2Model ----
(***************************************************************************)
(* Kiosk order orchestration core: the per-order FSM (fsm_spec.py), the    *)
(* orchestrator (fsm_orchestrator.py), the saga state handler              *)
(* (fsm_state_handler.py), the command endpoint (OrderLogic.py), the       *)
(* event bus (event_bus.py) and the stock ledger.                          *)
(*                                                                         *)
(* The database is modelled by its committed rows.  A SQLAlchemy session   *)
(* keeps the rows it has loaded in its identity map and does not refresh   *)
(* them on a later query unless a commit expired them, so each saga        *)
(* handler carries the FSM state it loaded before its gateway call.        *)
(***************************************************************************)
EXTENDS Integers, Sequences, FiniteSets, TLC

\* ---------------------------------------------------------------- bounds
MaxCommands == 1
MaxQty == 2
MaxStock == 2
MaxDelta == 2
MaxAdjust == 4
MaxPublish == 150
MaxConn == 2
MaxEvents == 2
MaxOrders == 3
MaxPickup == 2
MaxPin == 2
MaxAttempts == 2
MaxClock == 1
MaxFaults == 1
MaxRestarts == 1
MaxLines == 2

None == "NONE"

\* ------------------------------------------------------------ fsm_spec.py
State == {"INIT", "AWAITING_PAYMENT", "AWAITING_PRINTING", "AWAITING_KDS",
          "CANCELED_BY_USER", "CANCELED_BY_TIMEOUT", "UNSUCCESSFUL_PAYMENT",
          "PRINTING_FAILED", "SENT_TO_KDS", "SENT_TO_KDS_FAILED",
          "UNSUCCESSFUL_FISCALIZATION"}

Event == {"FISCALIZATION_SUCCEEDED", "FISCALIZATION_FAILED",
          "PAYMENT_SUCCEEDED", "USER_CANCELED", "INACTIVITY_TIMEOUT",
          "PAYMENT_FAILED", "PRINTING_SUCCEEDED", "PRINTING_FAILED_OR_TIMEOUT",
          "KDS_CONFIRMATION", "KDS_ERROR_OR_NO_RESPONSE"}

STATE_ALIASES ==
  [n \in {"AWAITING PAYMENT", "AWAITING KDS", "PRINTING_FAILD", "UNSUCCESSFULL_PAYMENT"} |->
     CASE n = "AWAITING PAYMENT" -> "AWAITING_PAYMENT"
       [] n = "AWAITING KDS" -> "AWAITING_KDS"
       [] n = "PRINTING_FAILD" -> "PRINTING_FAILED"
       [] n = "UNSUCCESSFULL_PAYMENT" -> "UNSUCCESSFUL_PAYMENT"]

EVENT_ALIASES ==
  [n \in {"PAYMENT_FAILD", "PRINTING_FAILD_OR_TIMEOUT", "PRINTING_SUCEEDED"} |->
     CASE n = "PAYMENT_FAILD" -> "PAYMENT_FAILED"
       [] n = "PRINTING_FAILD_OR_TIMEOUT" -> "PRINTING_FAILED_OR_TIMEOUT"
       [] n = "PRINTING_SUCEEDED" -> "PRINTING_SUCCEEDED"]

normalize_state_name(name) ==
  IF name \in State THEN name
  ELSE IF name \in DOMAIN STATE_ALIASES THEN STATE_ALIASES[name]
  ELSE None

normalize_event_name(name) ==
  IF name \in Event THEN name
  ELSE IF name \in DOMAIN EVENT_ALIASES THEN EVENT_ALIASES[name]
  ELSE None

\* (from, to, trigger) as written in the source, aliases included
RAW_TRIPLETS ==
  { <<"INIT", "AWAITING PAYMENT", "FISCALIZATION_SUCCEEDED">>,
    <<"INIT", "UNSUCCESSFUL_FISCALIZATION", "FISCALIZATION_FAILED">>,
    <<"AWAITING_PAYMENT", "AWAITING_PRINTING", "PAYMENT_SUCCEEDED">>,
    <<"AWAITING_PAYMENT", "CANCELED_BY_USER", "USER_CANCELED">>,
    <<"AWAITING_PAYMENT", "CANCELED_BY_TIMEOUT", "INACTIVITY_TIMEOUT">>,
    <<"AWAITING_PAYMENT", "UNSUCCESSFULL_PAYMENT", "PAYMENT_FAILD">>,
    <<"AWAITING_PRINTING", "PRINTING_FAILD", "PRINTING_FAILD_OR_TIMEOUT">>,
    <<"AWAITING_PRINTING", "AWAITING_KDS", "PRINTING_SUCCEEDED">>,
    <<"AWAITING_KDS", "SENT_TO_KDS", "KDS_CONFIRMATION">>,
    <<"AWAITING_KDS", "SENT_TO_KDS_FAILED", "KDS_ERROR_OR_NO_RESPONSE">> }

\* transitions[<<from_state, event>>] = to_state
TRANSITIONS ==
  [p \in { <<normalize_state_name(t[1]), normalize_event_name(t[3])>> : t \in RAW_TRIPLETS } |->
     normalize_state_name(
       (CHOOSE t \in RAW_TRIPLETS :
          <<normalize_state_name(t[1]), normalize_event_name(t[3])>> = p)[2])]

next_state(current, event) ==
  IF <<current, event>> \in DOMAIN TRANSITIONS THEN TRANSITIONS[<<current, event>>] ELSE None

can_transition(current, event) == <<current, event>> \in DOMAIN TRANSITIONS

is_terminal(state) == ~ \E e \in Event : <<state, e>> \in DOMAIN TRANSITIONS

\* advisory timeout of a state in seconds, 0 when the state has none
state_timeout(state) ==
  CASE state = "AWAITING_PAYMENT" -> 180
    [] state = "AWAITING_PRINTING" -> 60
    [] state = "AWAITING_KDS" -> 20
    [] OTHER -> 0


\* ------------------------------------------------- fsm_state_handler.py
\* saga step deadlines in seconds (FSMStateHandler.__init__)
step_timeout(state) ==
  CASE state = "INIT" -> 30
    [] state = "AWAITING_PAYMENT" -> 180
    [] state = "AWAITING_PRINTING" -> 60
    [] state = "AWAITING_KDS" -> 20
    [] OTHER -> 0

Gateway == {"fiscal", "payment", "printer", "kds"}

\* what a gateway call can end in: a success status, any other status or an
\* exception, or no answer before the step deadline (asyncio.TimeoutError)
Outcome == {"ok", "fail", "timeout"}

\* a printing handler that goes on to the KDS call itself
gateway_of_printing_goes_on_to_kds(state) ==
  CASE state = "INIT" -> "fiscal"
    [] state = "AWAITING_PAYMENT" -> "payment"
    [] state = "AWAITING_PRINTING" -> "kds"
    [] state = "AWAITING_KDS" -> "kds"
    [] OTHER -> None

\* the gateway the entry handler of a state calls

gateway_of(state) ==
  CASE state = "INIT" -> "fiscal"
    [] state = "AWAITING_PAYMENT" -> "payment"
    [] state = "AWAITING_PRINTING" -> "printer"
    [] state = "AWAITING_KDS" -> "kds"
    [] OTHER -> None

\* a fiscal handler that reports success whatever the fiscal gateway answered
saga_event_fiscal_always_ok(state, outcome) ==
  CASE state = "INIT" -> "FISCALIZATION_SUCCEEDED"
    [] state = "AWAITING_PAYMENT" ->
         IF outcome = "ok" THEN "PAYMENT_SUCCEEDED"
         ELSE IF outcome = "timeout" THEN "INACTIVITY_TIMEOUT" ELSE "PAYMENT_FAILED"
    [] state = "AWAITING_PRINTING" ->
         IF outcome = "ok" THEN "PRINTING_SUCCEEDED" ELSE "PRINTING_FAILED_OR_TIMEOUT"
    [] state = "AWAITING_KDS" ->
         IF outcome = "ok" THEN "KDS_CONFIRMATION" ELSE "KDS_ERROR_OR_NO_RESPONSE"

\* the event a handler submits for the outcome of its gateway call
saga_event(state, outcome) ==
  CASE state = "INIT" ->
         IF outcome = "ok" THEN "FISCALIZATION_SUCCEEDED" ELSE "FISCALIZATION_FAILED"
    [] state = "AWAITING_PAYMENT" ->
         IF outcome = "ok" THEN "PAYMENT_SUCCEEDED"
         ELSE IF outcome = "timeout" THEN "INACTIVITY_TIMEOUT" ELSE "PAYMENT_FAILED"
    [] state = "AWAITING_PRINTING" ->
         IF outcome = "ok" THEN "PRINTING_SUCCEEDED" ELSE "PRINTING_FAILED_OR_TIMEOUT"
    [] state = "AWAITING_KDS" ->
         IF outcome = "ok" THEN "KDS_CONFIRMATION" ELSE "KDS_ERROR_OR_NO_RESPONSE"

saga_actor(state, outcome) ==
  IF outcome = "timeout" THEN "SYSTEM"
  ELSE CASE state = "INIT" -> "FISCAL_DEVICE"
         [] state = "AWAITING_PAYMENT" -> "POS_TERMINAL"
         [] state = "AWAITING_PRINTING" -> "PRINTER"
         [] state = "AWAITING_KDS" -> "KITCHEN"

\* result_code carried by the handler's event_data: "NO_CODE" is a dict
\* without the key, "NO_DATA" is no event_data at all
saga_event_data(state, outcome) ==
  IF outcome = "ok" /\ state = "INIT" THEN "OK"
  ELSE IF outcome = "ok" /\ state = "AWAITING_PAYMENT" THEN "SUCCESS"
  ELSE "NO_CODE"

\* _save_fiscal_receipt_to_db / _save_slip_receipt_to_db commit the handler's
\* session before the event is submitted; the commit expires the loaded rows,
\* so the submission re-reads the FSM row.  Every other path submits with the
\* row the handler loaded before its gateway call.
commits_before_submit(state, outcome) ==
  outcome = "ok" /\ state \in {"INIT", "AWAITING_PAYMENT"}

\* a failure handler that marks an order cancelled by timeout as FAILED
terminal_status_timeout_failed(state) ==
  CASE state = "SENT_TO_KDS" -> "COMPLETED"
    [] state \in {"SENT_TO_KDS_FAILED", "PRINTING_FAILED", "CANCELED_BY_TIMEOUT",
                  "UNSUCCESSFUL_FISCALIZATION", "UNSUCCESSFUL_PAYMENT"} -> "FAILED"
    [] state \in {"CANCELED_BY_USER"} -> "CANCELLED"
    [] OTHER -> None

\* Order.status a terminal entry handler writes
terminal_status(state) ==
  CASE state = "SENT_TO_KDS" -> "COMPLETED"
    [] state \in {"SENT_TO_KDS_FAILED", "PRINTING_FAILED",
                  "UNSUCCESSFUL_FISCALIZATION", "UNSUCCESSFUL_PAYMENT"} -> "FAILED"
    [] state \in {"CANCELED_BY_USER", "CANCELED_BY_TIMEOUT"} -> "CANCELLED"
    [] OTHER -> None

\* ------------------------------------------------------- OrderLogic.py
ItemState == {"active", "inactive", "missing"}

\* a validation that never looks at the stock
validate_and_calculate_totals_no_stock_check(item, stock_quantity, quantity) ==
  IF item = "missing" THEN 400
  ELSE IF item = "inactive" THEN 400
  ELSE 200

\* _validate_and_calculate_totals for one line: the HTTP status of create_order
validate_and_calculate_totals(item, stock_quantity, quantity) ==
  IF item = "missing" THEN 400
  ELSE IF item = "inactive" THEN 400
  ELSE IF stock_quantity < quantity THEN 400
  ELSE 200

Command == {"RETRY_PAYMENT", "CANCEL_ORDER", "RETRY_FISCALIZATION", "RETRY_PRINTING"}

event_mapping(action) ==
  CASE action = "RETRY_PAYMENT" -> "PAYMENT_FAILED"
    [] action = "CANCEL_ORDER" -> "USER_CANCELED"
    [] action = "RETRY_FISCALIZATION" -> "FISCALIZATION_FAILED"
    [] action = "RETRY_PRINTING" -> "PRINTING_FAILED_OR_TIMEOUT"

\* _allow_retry / is_retry_allowed: the policy flag of a state
is_retry_allowed(state) == state \in {"AWAITING_PAYMENT", "AWAITING_PRINTING"}

\* the retry commands of the kiosk
RetryCommand == {"RETRY_PAYMENT", "RETRY_FISCALIZATION", "RETRY_PRINTING"}

\* ------------------------------------------------------- event_bus.py
per_queue_max == 100

\* a bus that keeps the oldest events: on a full queue the new event is dropped
publish_drop_newest(q, event) ==
  IF Len(q) < per_queue_max THEN Append(q, event) ELSE q

\* a bus that, on a full queue, puts the new event in the place of the oldest
publish_overflow_to_front(q, event) ==
  IF Len(q) < per_queue_max THEN Append(q, event) ELSE <<event>> \o Tail(q)

\* a bus that hands the newest event to the subscriber first
publish_newest_first(q, event) ==
  IF Len(q) < per_queue_max THEN <<event>> \o q ELSE <<event>> \o Tail(q)

\* EventBus.publish on one subscriber queue: drop the oldest when full
publish(q, event) ==
  IF Len(q) < per_queue_max THEN Append(q, event) ELSE Append(Tail(q), event)

\* whether publish would wait in its final q.put: the queue is still full
\* after put_nowait failed and get_nowait took the oldest event out
put_waits(q) ==
  Len(q) >= per_queue_max /\ Len(Tail(q)) >= per_queue_max

\* ------------------------------------- ItemLiveStockReplenishmentLogic.py
\* the change replenish_or_remove applies: a removal is clamped to the stock held
effective_change(initial_qty, change_qty) ==
  IF change_qty < 0 /\ -change_qty > initial_qty THEN -initial_qty ELSE change_qty

\* a stock record that holds the applied change
recorded_change_effective(change_qty, applied_change) == applied_change

\* change_quantity of the stock record replenish_or_remove appends
recorded_change(change_qty, applied_change) == change_qty

\* a replenish_or_remove that empties the stock on every removal
replenish_or_remove_clamp_all(initial_qty, change_qty) ==
  IF change_qty < 0 THEN 0 ELSE initial_qty + change_qty

\* a replenish_or_remove that applies every removal in full
replenish_or_remove_unclamped(initial_qty, change_qty) ==
  initial_qty + change_qty

\* new stock quantity after replenish_or_remove
replenish_or_remove(initial_qty, change_qty) ==
  initial_qty + effective_change(initial_qty, change_qty)

\* ------------------------------------------------------ fsm_orchestrator.py
\* a transition_state that lets USER_CANCELED through from every state
\* where a create_order whose lines passed validation can still fail: the
\* item row is gone at the second lookup, or the database refuses the flush
\* or the commit of initialize_fsm
Fault == {"item_lookup", "flush", "commit"}

\* the rows create_order has added or flushed to its session when the fault
\* strikes
flushed_at(fault) ==
  CASE fault = "item_lookup" -> {"order"}
    [] fault = "flush" -> {"order", "items", "fsm"}
    [] fault = "commit" -> {"order", "items", "fsm", "log"}

\* the HTTP status create_order's except branches map the fault to
fault_status(fault) == IF fault = "item_lookup" THEN 400 ELSE 500

rollback_missing(flushed) == flushed

dispatch_before_commit(committed) == TRUE

\* asyncio.create_task of the entry handler comes after self.db.commit() in
\* initialize_fsm and in transition_state: a handler task exists only when the
\* commit went through
dispatch_after_commit(committed) == committed

\* db.rollback() in the except branches: the rows left of what was flushed
rollback(flushed) == {}

after_line_failure_stops(pos, n) == n + 1

\* the except branch of the per-line loop of
\* decrease_inventory_for_completed_order ends in continue: the line after a
\* failed line pos of n lines is the next one
after_line_failure(pos, n) == pos + 1

\* the values random.randint draws a pickup number and a PIN from
PickupRange == 1..MaxPickup
PinRange == 1..MaxPin

\* the first of the sampled values that no order of the date has, 0 when all
\* the attempts hit a value in use
first_unused(samples, existing) ==
  LET free == { i \in DOMAIN samples : samples[i] \notin existing }
  IN IF free = {} THEN 0
     ELSE samples[CHOOSE i \in free : \A j \in free : i <= j]

\* generate_pickup_number: the first sampled value not in use today, else the
\* last three digits of the clock's HHMMSS, which is not looked up
generate_pickup_number(existing, samples, now) ==
  IF first_unused(samples, existing) # 0 THEN first_unused(samples, existing)
  ELSE now

\* generate_pin_code: the first sampled value not in use today, else the
\* clock's MMSS followed by two random digits (longer than a sampled PIN),
\* which is not looked up
generate_pin_code(existing, samples, now) ==
  IF first_unused(samples, existing) # 0 THEN first_unused(samples, existing)
  ELSE MaxPin + 1 + now

\* kiosk usernames, the channels of the bus
Channel == {"kiosk1", "kiosk2"}

\* SSE connections
Conn == 1..MaxConn

\* EventBus._subs: the channel keys present and each key's set of queues (a
\* queue is named by its connection); subs[ch] of an absent key is empty
EmptyBus == [keys |-> {}, subs |-> [ch \in Channel |-> {}]]

\* EventBus.subscribe up to its first suspension: the new queue is added to
\* the channel's set, which creates the key
subscribe(b, channel, c) ==
  [keys |-> b.keys \cup {channel},
   subs |-> [b.subs EXCEPT ![channel] = @ \cup {c}]]

subscribe_finally_keeps_key(b, channel, c) ==
  [keys |-> b.keys \cup {channel},
   subs |-> [b.subs EXCEPT ![channel] = @ \ {c}]]

\* the finally block of EventBus.subscribe: discard the queue (the defaultdict
\* creates a missing key), then pop the key when its set is empty
subscribe_finally(b, channel, c) ==
  LET left == b.subs[channel] \ {c} IN
  [keys |-> IF left = {} THEN b.keys \ {channel} ELSE b.keys \cup {channel},
   subs |-> [b.subs EXCEPT ![channel] = left]]

transition_state_cancel_anywhere(current_state, trigger_event) ==
  IF trigger_event = "USER_CANCELED"
  THEN [ok |-> TRUE, new_state |-> "CANCELED_BY_USER"]
  ELSE IF ~can_transition(current_state, trigger_event)
  THEN [ok |-> FALSE, new_state |-> current_state]
  ELSE [ok |-> TRUE, new_state |-> next_state(current_state, trigger_event)]

\* validation part of transition_state: (accepted, new state)
transition_state(current_state, trigger_event) ==
  IF ~can_transition(current_state, trigger_event)
  THEN [ok |-> FALSE, new_state |-> current_state]
  ELSE IF next_state(current_state, trigger_event) = None
  THEN [ok |-> FALSE, new_state |-> current_state]
  ELSE [ok |-> TRUE, new_state |-> next_state(current_state, trigger_event)]

\* _update_fsm_context on the context columns the session holds
update_fsm_context(c, trigger_event, event_data) ==
  IF event_data = "NO_DATA" THEN c
  ELSE LET code == IF event_data = "NO_CODE" THEN None ELSE event_data IN
       IF trigger_event \in {"PAYMENT_SUCCEEDED", "PAYMENT_FAILED"}
       THEN [c EXCEPT !.payment_attempt_result_code = code]
       ELSE IF trigger_event \in {"FISCALIZATION_SUCCEEDED", "FISCALIZATION_FAILED"}
       THEN [c EXCEPT !.fiscal_attempt_result_code = code]
       ELSE c

\* the flush of a session writes the columns whose value differs from the
\* value the session loaded
flush_context(committed, loaded, new) ==
  [f \in DOMAIN committed |-> IF new[f] # loaded[f] THEN new[f] ELSE committed[f]]

\* _save_fiscal_receipt_to_db / _save_slip_receipt_to_db: the handler adds
\* the receipt row and commits it as soon as the gateway has answered OK /
\* SUCCESS, before it submits its event
save_receipt(r, state, outcome) ==
  IF outcome = "ok" /\ state = "INIT" THEN [r EXCEPT !.fiscal = @ + 1]
  ELSE IF outcome = "ok" /\ state = "AWAITING_PAYMENT" THEN [r EXCEPT !.slip = @ + 1]
  ELSE r

\* timer armed by _setup_state_timer on entry to a state
cancel_own_timer_unwinds == "done"

\* _cancel_timer called by transition_state inside the timer's own task: the
\* task cancels itself and awaits itself; the loop resumes it one turn later
\* with a CancelledError that the except clause swallows, so the call goes on
\* (mid) instead of unwinding (done)
cancel_own_timer == "mid"

timer_on_entry(state) ==
  IF ~is_terminal(state) /\ state_timeout(state) # 0 THEN "armed" ELSE "none"

\* a timeout_handler whose AWAITING_KDS branch confirms the order
timer_event_confirms_kds(state) ==
  CASE state = "AWAITING_PAYMENT" -> "INACTIVITY_TIMEOUT"
    [] state = "AWAITING_KDS" -> "KDS_CONFIRMATION"
    [] OTHER -> None

\* event a fired state timer submits, None when timeout_handler has no branch
timer_event(state) ==
  CASE state = "AWAITING_PAYMENT" -> "INACTIVITY_TIMEOUT"
    [] state = "AWAITING_KDS" -> "KDS_ERROR_OR_NO_RESPONSE"
    [] OTHER -> None


\* ------------------------------------------------------------------ state
VARIABLES
  fsm,       \* committed OrderFSMKioskRuntime.fsm_kiosk_state, None before creation
  status,    \* committed Order.status
  ctx,       \* committed context columns of the FSM runtime row
  log,       \* committed OrderLifecycleLog rows, in creation order
  qty,       \* quantity of the order's line
  stock,     \* ItemLiveAvailable.stock_quantity of the ordered item
  stock0,    \* stock_quantity when the order was created
  ledger,    \* change_quantity of the item's ItemLiveStockReplenishment rows
  sse,       \* queue of a subscriber of the kiosk channel, subscribed from the start
  entries,   \* one record per entry into a state: its handler task and its state timer
  calls,     \* number of calls made to each gateway
  ncmd,      \* number of commands the kiosk has sent
  answers,   \* outcomes each gateway has produced
  ncalls,    \* number of transition_state calls that have returned
  lastCall,  \* state read, event and result of the last transition_state call
  version,   \* number of committed writes of the FSM row
  hist,      \* per committed transition: the row before the write and what the call read
  lastCreate,\* the last create_order request and its HTTP status
  idle,      \* queue of a bus subscriber that never reads
  rq,        \* queue of a bus subscriber that reads
  npub,      \* number of events published to the channel, event n is the n-th published
  lastRecv,  \* the last event the reading subscriber received, 0 before the first
  gap,       \* the reading subscriber missed events between two it received
  waited,    \* a publish found the queue full at its final put
  lastAdj,   \* the last replenish_or_remove call: stock before, request, response
  nadj,      \* number of replenish_or_remove calls made
  bus,       \* EventBus._subs of the SSE service: channel keys and their queues
  conns,     \* per SSE connection: client, event_stream, its two generators, its queue
  nev,       \* number of events published to the SSE service's bus
  today,     \* pickup_number and pin_code of the orders whose order_date is today
  nfault,    \* number of create_order calls the database has refused
  nrestart,  \* number of times the process has been restarted
  ded,       \* an order of several lines in its SENT_TO_KDS handler, and its items
  receipts,  \* number of FiscalReceipt and of SlipReceipt rows committed for the order
  inflight   \* the orders created on one item: quantity, Order.status, deduction applied

vars == <<fsm, status, ctx, log, qty, stock, stock0, ledger, sse, entries, calls, ncmd,
          answers, ncalls, lastCall, version, hist, lastCreate,
          idle, rq, npub, lastRecv, gap, waited, lastAdj, nadj,
          bus, conns, nev, today, nfault, nrestart, ded, receipts, inflight>>

orderVars == <<fsm, status, ctx, log, qty, stock0, sse, entries, calls, ncmd,
               answers, ncalls, lastCall, version, hist, lastCreate>>
busVars == <<idle, rq, npub, lastRecv, gap, waited>>
adjVars == <<lastAdj, nadj>>
sseVars == <<bus, conns, nev>>
idVars == <<today>>
faultVars == <<nfault>>
restartVars == <<nrestart>>
auxVars == <<ded, receipts, inflight>>
extVars == <<sseVars, idVars, faultVars, restartVars, auxVars>>
sideVars == <<busVars, adjVars, extVars>>

dbVars == <<fsm, ctx, log, sse, version, hist>>
invVars == <<status, stock, ledger>>

CtxInit == [payment_attempt_result_code |-> None, fiscal_attempt_result_code |-> None]

\* a state entry: handler task (hp) queued -> waiting (gateway call in flight)
\* -> done; state timer (tp) none | armed -> mid (inside its transition_state,
\* suspended in _cancel_timer) -> done.  loaded/lctx/lver: the FSM row as the
\* handler's session loaded it; tver: row version the timer's call read; tx:
\* the transaction of the handler's session, none | open (begun by its first
\* query, ended by commit, rollback or close)
new_entry(state) ==
  [state |-> state, hp |-> "queued", tp |-> timer_on_entry(state),
   loaded |-> None, lctx |-> CtxInit, lver |-> 0, tver |-> 0, tx |-> "none"]

Waiting == { entries[i].state : i \in { j \in DOMAIN entries : entries[j].hp = "waiting" } }

\* no order yet
NoOrder ==
  /\ fsm = None
  /\ status = None
  /\ ctx = CtxInit
  /\ log = << >>
  /\ qty = 0
  /\ sse = << >>
  /\ entries = << >>
  /\ calls = [g \in Gateway |-> 0]
  /\ ncmd = 0
  /\ answers = [g \in Gateway |-> {}]
  /\ ncalls = 0
  /\ lastCall = [read |-> None, ev |-> None, ok |-> FALSE]
  /\ version = 0
  /\ hist = << >>
  /\ lastCreate = [item |-> None, quantity |-> 0, http |-> 0]

\* a bus with two subscribers of the channel and nothing published
NoEvents ==
  /\ idle = << >> /\ rq = << >>
  /\ npub = 0 /\ lastRecv = 0
  /\ gap = FALSE /\ waited = FALSE

\* the items an order line can name
Item == {"tea", "bun"}

\* no receipt saved
NoReceipts == [fiscal |-> 0, slip |-> 0]

\* no order in its completion handler
NoDeduct ==
  [lines |-> << >>, rows |-> {}, stock |-> [it \in Item |-> 0], refused |-> {},
   pos |-> 0, status |-> None, ledger |-> << >>, result |-> << >>]

\* no SSE connection yet: client none | connected | disconnected; stream
\* (event_stream) none | sending (between two asyncio.wait) | waiting (inside
\* asyncio.wait, both tasks pending) | ended; gen (the subscribe generator)
\* unstarted | getting (a task is suspended in q.get()) | yielded (suspended
\* at its yield, no task) | closed; hb (the heartbeat generator) yielded |
\* sleeping (a task is suspended in sleep); q: events waiting in the queue;
\* lost: events taken by a read whose result event_stream never looks at
NoConn ==
  [channel |-> None, client |-> "none", stream |-> "none", gen |-> "unstarted",
   hb |-> "unstarted", q |-> 0, lost |-> 0]

NoStreams ==
  /\ bus = EmptyBus
  /\ conns = [c \in Conn |-> NoConn]
  /\ nev = 0
  /\ today = << >>
  /\ nfault = 0
  /\ nrestart = 0
  /\ ded = NoDeduct
  /\ receipts = NoReceipts
  /\ inflight = << >>

NoAdjust ==
  /\ lastAdj = [initial_qty |-> 0, quantity |-> 0, changed_by |-> None,
                stock_quantity |-> 0]
  /\ nadj = 0

Init ==
  /\ NoOrder /\ NoEvents /\ NoAdjust /\ NoStreams
  /\ stock \in 0..MaxStock
  /\ stock0 = stock
  /\ ledger = << >>

\* the accepted part of create_order with one line of quantity q, then
\* initialize_fsm: Order, OrderItem, FSM runtime in INIT and the initial log
\* row are committed together, STATE_CHANGED(INIT) is published, the INIT
\* handler is dispatched
CreateAccepted(q) ==
  /\ fsm' = "INIT"
  /\ status' = "PENDING"
  /\ qty' = q
  /\ stock0' = stock
  /\ log' = Append(log, [from_state |-> None, to_state |-> "INIT",
                         trigger_event |-> None, actor_type |-> "SYSTEM"])
  /\ sse' = publish(sse, [state |-> "INIT", previous_state |-> None, trigger_event |-> None])
  /\ entries' = Append(entries, new_entry("INIT"))
  /\ version' = version + 1
  /\ hist' = Append(hist, [was |-> None, read |-> None, ev |-> None, to |-> "INIT",
                           rver |-> version, waiting |-> {}])
  /\ UNCHANGED <<ctx, stock, ledger, calls, ncmd, answers, ncalls, lastCall>>

\* OrderLogic.create_order for one line (item, q): rejected with 400 by
\* _validate_and_calculate_totals before anything is written, or accepted
CreateOrder(item, q) ==
  /\ fsm = None
  /\ lastCreate' = [item |-> item, quantity |-> q,
                    http |-> validate_and_calculate_totals(item, stock, q)]
  /\ UNCHANGED sideVars
  /\ IF validate_and_calculate_totals(item, stock, q) # 200
     THEN UNCHANGED <<dbVars, invVars, qty, stock0, entries, calls, ncmd, answers,
                      ncalls, lastCall>>
     ELSE CreateAccepted(q)

\* create_order of a valid line that fails after validation: what the session
\* holds is rolled back and the fault is answered 400 or 500.  initialize_fsm
\* publishes the INIT event before it commits, so a refused commit leaves the
\* event on the kiosk's stream
CreateFails(item, q, fault) ==
  /\ fsm = None
  /\ nfault < MaxFaults
  /\ nfault' = nfault + 1
  /\ validate_and_calculate_totals(item, stock, q) = 200
  /\ lastCreate' = [item |-> item, quantity |-> q, http |-> fault_status(fault)]
  /\ LET left == rollback(flushed_at(fault)) IN
       /\ status' = IF "order" \in left THEN "PENDING" ELSE status
       /\ qty' = IF "items" \in left THEN q ELSE qty
       /\ fsm' = IF "fsm" \in left THEN "INIT" ELSE fsm
       /\ log' = IF "log" \in left
                 THEN Append(log, [from_state |-> None, to_state |-> "INIT",
                                   trigger_event |-> None, actor_type |-> "SYSTEM"])
                 ELSE log
  /\ sse' = IF fault = "commit"
            THEN publish(sse, [state |-> "INIT", previous_state |-> None,
                               trigger_event |-> None])
            ELSE sse
  /\ entries' = IF dispatch_after_commit(FALSE) THEN Append(entries, new_entry("INIT"))
                 ELSE entries
  /\ UNCHANGED <<ctx, stock, stock0, ledger, calls, ncmd, answers, ncalls,
                 lastCall, version, hist, busVars, adjVars, sseVars, idVars,
                 restartVars, auxVars>>

\* transition_state from the read of the FSM row to its return, for a caller
\* whose session holds the row as (current_state, cur_ctx) read at version rver;
\* ents is the entry table after the caller's own bookkeeping
Submit(current_state, cur_ctx, rver, trigger_event, actor, event_data, ents) ==
  LET r == transition_state(current_state, trigger_event) IN
  /\ ncalls' = ncalls + 1
  /\ lastCall' = [read |-> current_state, ev |-> trigger_event, ok |-> r.ok]
  /\ IF r.ok
     THEN /\ fsm' = r.new_state
          /\ ctx' = flush_context(ctx, cur_ctx,
                                  update_fsm_context(cur_ctx, trigger_event, event_data))
          /\ log' = Append(log, [from_state |-> current_state, to_state |-> r.new_state,
                                 trigger_event |-> trigger_event, actor_type |-> actor])
          /\ sse' = publish(sse, [state |-> r.new_state, previous_state |-> current_state,
                                  trigger_event |-> trigger_event])
          /\ version' = version + 1
          /\ hist' = Append(hist, [was |-> fsm, read |-> current_state, ev |-> trigger_event,
                                   to |-> r.new_state, rver |-> rver, waiting |-> Waiting])
          /\ entries' = Append(ents, new_entry(r.new_state))
     ELSE /\ entries' = ents
          /\ UNCHANGED dbVars

\* the FIFO of created tasks: the oldest queued handler starts first
NextQueued(i) ==
  /\ i \in DOMAIN entries
  /\ entries[i].hp = "queued"
  /\ \A j \in 1..(i-1) : entries[j].hp # "queued"

\* a handler of a non-terminal state starts: it loads the order with its FSM
\* row into its session and calls the gateway
StartSagaStep(i) ==
  /\ NextQueued(i)
  /\ ~is_terminal(entries[i].state)
  /\ entries' = [entries EXCEPT ![i].hp = "waiting", ![i].loaded = fsm,
                                ![i].lctx = ctx, ![i].lver = version,
                                ![i].tx = "open"]
  /\ calls' = [calls EXCEPT ![gateway_of(entries[i].state)] = @ + 1]
  /\ UNCHANGED <<dbVars, invVars, qty, stock0, lastCreate, sideVars, ncmd, answers, ncalls, lastCall>>

\* the state timer of an entry fires before the deadline of the entry's saga
\* step when it is at most as long: it was armed before the handler started
TimerPrecedesDeadline(state) ==
  timer_on_entry(state) = "armed" /\ state_timeout(state) <= step_timeout(state)

\* the gateway call of handler i ends and the handler submits its event
GatewayResult(i, outcome) ==
  /\ i \in DOMAIN entries
  /\ entries[i].hp = "waiting"
  /\ outcome = "timeout" /\ TimerPrecedesDeadline(entries[i].state) => entries[i].tp = "done"
  /\ LET e == entries[i]
         fresh == commits_before_submit(e.state, outcome)
     IN Submit(IF fresh THEN fsm ELSE e.loaded,
               IF fresh THEN ctx ELSE e.lctx,
               IF fresh THEN version ELSE e.lver,
               saga_event(e.state, outcome), saga_actor(e.state, outcome),
               saga_event_data(e.state, outcome),
               [entries EXCEPT ![i].hp = "done", ![i].tx = "none"])
  /\ answers' = [answers EXCEPT ![gateway_of(entries[i].state)] = @ \cup {outcome}]
  /\ receipts' = save_receipt(receipts, entries[i].state, outcome)
  /\ UNCHANGED <<invVars, qty, stock0, lastCreate, busVars, adjVars, sseVars, idVars,
                 faultVars, restartVars, ded, inflight, calls, ncmd>>

\* entry handler of a terminal state: writes Order.status; on SENT_TO_KDS it
\* also deducts the line's quantity from the stock and appends the ledger row
TerminalHandler(i) ==
  /\ NextQueued(i)
  /\ is_terminal(entries[i].state)
  /\ status' = terminal_status(entries[i].state)
  /\ IF entries[i].state = "SENT_TO_KDS"
     THEN /\ stock' = replenish_or_remove(stock, -qty)
          /\ ledger' = Append(ledger, recorded_change(-qty, effective_change(stock, -qty)))
     ELSE UNCHANGED <<stock, ledger>>
  /\ entries' = [entries EXCEPT ![i].hp = "done"]
  /\ UNCHANGED <<dbVars, qty, stock0, lastCreate, sideVars, calls, ncmd, answers, ncalls, lastCall>>

\* timeout_handler wakes up: it reads the FSM row in its orchestrator's
\* session.  An invalid event returns at once.  A valid one changes the row in
\* the session, then _cancel_timer finds the running timer task itself in
\* _active_timers, cancels it and awaits it: the task is suspended for one
\* turn of the event loop before the CancelledError is caught.  A timer of a
\* state without a branch (AWAITING_PRINTING) just ends.
TimerFire(i) ==
  /\ i \in DOMAIN entries
  /\ entries[i].tp = "armed"
  /\ entries[i].hp # "queued"
  /\ LET ev == timer_event(entries[i].state) IN
     IF ev = None
     THEN /\ entries' = [entries EXCEPT ![i].tp = "done"]
          /\ UNCHANGED <<dbVars, ncalls, lastCall>>
     ELSE IF transition_state(fsm, ev).ok
     THEN /\ entries' = [entries EXCEPT ![i].tp = cancel_own_timer, ![i].tver = version]
          /\ UNCHANGED <<dbVars, ncalls, lastCall>>
     ELSE Submit(fsm, ctx, version, ev, "SYSTEM", "NO_DATA",
                 [entries EXCEPT ![i].tp = "done"])
  /\ UNCHANGED <<invVars, qty, stock0, lastCreate, sideVars, calls, ncmd, answers>>

\* the timer's transition_state resumes: log row, publish, commit, dispatch
TimerCommit(i) ==
  /\ i \in DOMAIN entries
  /\ entries[i].tp = "mid"
  /\ Submit(entries[i].state, ctx, entries[i].tver, timer_event(entries[i].state),
            "SYSTEM", "NO_DATA", [entries EXCEPT ![i].tp = "done"])
  /\ UNCHANGED <<invVars, qty, stock0, lastCreate, sideVars, calls, ncmd, answers>>

\* OrderLogic.process_order_command: the request's session reads the row and
\* submits the mapped event with actor CUSTOMER in one uninterrupted run
UserCommand(action) ==
  /\ fsm # None
  /\ ncmd < MaxCommands
  /\ ncmd' = ncmd + 1
  /\ Submit(fsm, ctx, version, event_mapping(action), "CUSTOMER", "NO_DATA", entries)
  /\ UNCHANGED <<invVars, qty, stock0, lastCreate, sideVars, calls, answers>>

Next ==
  \/ \E item \in ItemState, q \in 1..MaxQty : CreateOrder(item, q)
  \/ \E i \in DOMAIN entries : StartSagaStep(i)
  \/ \E i \in DOMAIN entries : \E o \in Outcome : GatewayResult(i, o)
  \/ \E i \in DOMAIN entries : TerminalHandler(i)
  \/ \E i \in DOMAIN entries : TimerFire(i)
  \/ \E i \in DOMAIN entries : TimerCommit(i)
  \/ \E a \in Command : UserCommand(a)

Spec == Init /\ [][Next]_vars

\* the gateway call of handler i has ended and the database cannot be
\* reached: transition_state raises at its query, the handler's except branch
\* submits the step's failure event, which raises as well, and
\* handle_state_change logs the error and swallows it.  Nothing is written or
\* published and the handler task ends
SubmissionFails(i, outcome) ==
  /\ i \in DOMAIN entries
  /\ entries[i].hp = "waiting"
  /\ nfault < MaxFaults
  /\ outcome = "timeout" /\ TimerPrecedesDeadline(entries[i].state) => entries[i].tp = "done"
  /\ nfault' = nfault + 1
  /\ entries' = [entries EXCEPT ![i].hp = "done", ![i].tx = "none"]
  /\ answers' = [answers EXCEPT ![gateway_of(entries[i].state)] = @ \cup {outcome}]
  /\ UNCHANGED <<dbVars, invVars, qty, stock0, lastCreate, busVars, adjVars, sseVars, idVars,
                 restartVars, auxVars, calls, ncmd, ncalls, lastCall>>

NextOutage ==
  \/ Next
  \/ \E i \in DOMAIN entries : \E o \in Outcome : SubmissionFails(i, o)

\* no restart; the event loop runs every task it holds: a created handler
\* task starts, a gateway call ends by its answer or by wait_for's deadline
\* and the handler then finishes, a sleeping timer wakes up, a suspended
\* timer resumes
SpecOutage ==
  /\ Init /\ [][NextOutage]_vars
  /\ WF_vars(\E i \in DOMAIN entries : StartSagaStep(i))
  /\ WF_vars(\E i \in DOMAIN entries : \E o \in Outcome :
               GatewayResult(i, o) \/ SubmissionFails(i, o))
  /\ WF_vars(\E i \in DOMAIN entries : TerminalHandler(i))
  /\ WF_vars(\E i \in DOMAIN entries : TimerFire(i))
  /\ WF_vars(\E i \in DOMAIN entries : TimerCommit(i))

\* the same service on a database that can refuse a create_order
NextFaults ==
  \/ Next
  \/ \E item \in ItemState, q \in 1..MaxQty, fault \in Fault : CreateFails(item, q, fault)

SpecFaults == Init /\ [][NextFaults]_vars

\* the event loop resumes a timer task suspended in _cancel_timer on its
\* next turn
SpecTimers == Spec /\ WF_vars(\E i \in DOMAIN entries : TimerCommit(i))

\* the process is killed and started again: the committed rows stay, every
\* handler task, timer and pending gateway call of the old process is gone
\* with it (lost), and so are the bus and its queues.  startup_event creates
\* the tables and nothing else: it does not call recover_incomplete_fsm_states
Restart ==
  /\ fsm # None
  /\ nrestart < MaxRestarts
  /\ nrestart' = nrestart + 1
  /\ entries' = [i \in DOMAIN entries |->
       [entries[i] EXCEPT !.hp = IF @ = "done" THEN @ ELSE "lost",
                          !.tp = IF @ \in {"armed", "mid"} THEN "lost" ELSE @]]
  /\ sse' = << >>
  /\ UNCHANGED <<fsm, status, ctx, log, qty, stock, stock0, ledger, calls, ncmd, answers,
                 ncalls, lastCall, version, hist, lastCreate, busVars, adjVars, sseVars,
                 idVars, faultVars, auxVars>>

NextRestart == Next \/ Restart

SpecRestart == Init /\ [][NextRestart]_vars

\* ------------------------------------------------------- the bus alone
\* EventBus.publish of the next event to the channel: it is put on the queue
\* of every subscriber; publish has no suspension point unless q.put waits
Publish ==
  /\ npub < MaxPublish
  /\ npub' = npub + 1
  /\ idle' = publish(idle, npub + 1)
  /\ rq' = publish(rq, npub + 1)
  /\ waited' = (waited \/ put_waits(idle) \/ put_waits(rq))
  /\ UNCHANGED <<lastRecv, gap, orderVars, adjVars, extVars, stock, ledger>>

\* the subscribe generator of the reading subscriber takes the next event
Receive ==
  /\ rq # << >>
  /\ lastRecv' = Head(rq)
  /\ rq' = Tail(rq)
  /\ gap' = (gap \/ (lastRecv > 0 /\ Head(rq) > lastRecv + 1))
  /\ UNCHANGED <<idle, npub, waited, orderVars, adjVars, extVars, stock, ledger>>

InitBus ==
  /\ NoOrder /\ NoEvents /\ NoAdjust /\ NoStreams
  /\ stock = 0
  /\ stock0 = 0
  /\ ledger = << >>

NextBus == Publish \/ Receive

SpecBus == InitBus /\ [][NextBus]_vars

\* ------------------------------------------------ stock adjustments alone
\* one replenish_or_remove call: read the stock, write the clamped result,
\* append the stock record, commit, answer with the new quantity.  The
\* coroutine never suspends and the service runs one event loop, so calls on
\* an item do not interleave
Adjust(change_qty, changed_by_username) ==
  /\ nadj < MaxAdjust
  /\ nadj' = nadj + 1
  /\ stock' = replenish_or_remove(stock, change_qty)
  /\ ledger' = Append(ledger, recorded_change(change_qty,
                                              effective_change(stock, change_qty)))
  /\ lastAdj' = [initial_qty |-> stock, quantity |-> change_qty,
                 changed_by |-> changed_by_username,
                 stock_quantity |-> replenish_or_remove(stock, change_qty)]
  /\ UNCHANGED <<orderVars, busVars, extVars>>

\* the administrator's endpoint, any signed quantity
AdminAdjust(quantity) == Adjust(quantity, "admin")

\* decrease_inventory_for_completed_order for a line of quantity q
OrderDeduction(q) == Adjust(-q, "kiosk")

\* an item as ItemLiveAdd creates it: stock 0 and no stock record
InitStock ==
  /\ NoOrder /\ NoEvents /\ NoAdjust /\ NoStreams
  /\ stock = 0
  /\ stock0 = 0
  /\ ledger = << >>

NextStock ==
  \/ \E quantity \in (-MaxDelta)..MaxDelta : AdminAdjust(quantity)
  \/ \E q \in 1..MaxQty : OrderDeduction(q)

SpecStock == InitStock /\ [][NextStock]_vars

\* ------------------------------------------------ the SSE endpoint alone
notSse == <<orderVars, busVars, adjVars, idVars, faultVars, restartVars, auxVars,
            stock, ledger>>

\* GET /api/kiosk/events of kiosk ch: event_stream sends the retry hint, makes
\* the two iterators and runs its first asyncio.wait: the subscribe task adds
\* the queue and suspends in q.get(), the heartbeat task yields the first ping
event_stream_start(c, ch) ==
  /\ conns[c].client = "none"
  /\ conns' = [conns EXCEPT ![c] = [channel |-> ch, client |-> "connected",
                                     stream |-> "sending", gen |-> "getting",
                                     hb |-> "yielded", q |-> 0, lost |-> 0]]
  /\ bus' = subscribe(bus, ch, c)
  /\ UNCHANGED <<nev, notSse>>

\* the next turn of event_stream's loop, request.is_disconnected() having
\* answered False: a new task per iterator.  __anext__ of a generator whose
\* previous __anext__ is still suspended raises RuntimeError, task.result()
\* re-raises it and the stream ends; the tasks already started are left alone
event_stream_iterate(c) ==
  /\ conns[c].stream = "sending"
  /\ conns[c].client = "connected"
  /\ LET k == conns[c]
         err == k.gen = "getting" \/ k.hb = "sleeping"
         taken == k.gen = "yielded" /\ k.q > 0
     IN conns' = [conns EXCEPT ![c] =
          [k EXCEPT !.gen = IF k.gen = "yielded" /\ k.q = 0 THEN "getting" ELSE @,
                    !.q = IF taken THEN k.q - 1 ELSE @,
                    !.hb = IF k.hb = "yielded" THEN "sleeping" ELSE @,
                    !.stream = IF err THEN "ended"
                               ELSE IF taken THEN "sending" ELSE "waiting"]]
  /\ UNCHANGED <<bus, nev, notSse>>

\* asyncio.sleep(15) of the heartbeat task ends: heartbeat yields a ping and
\* a stream inside asyncio.wait goes on to send it
heartbeat_tick(c) ==
  /\ conns[c].hb = "sleeping"
  /\ conns' = [conns EXCEPT ![c] =
       [@ EXCEPT !.hb = "yielded",
                 !.stream = IF @ = "waiting" THEN "sending" ELSE @]]
  /\ UNCHANGED <<bus, nev, notSse>>

\* EventBus.publish to channel ch: the event is put on every queue of the
\* channel; a task suspended in q.get() takes it and its generator yields.
\* event_stream reads the result of that task only when it is inside the
\* asyncio.wait that the task was created for
bus_publish(ch) ==
  /\ nev < MaxEvents
  /\ nev' = nev + 1
  /\ conns' = [c \in Conn |->
       IF c \notin bus.subs[ch] THEN conns[c]
       ELSE IF conns[c].gen = "getting"
            THEN [conns[c] EXCEPT !.gen = "yielded",
                                  !.lost = IF conns[c].stream = "waiting" THEN @ ELSE @ + 1,
                                  !.stream = IF @ = "waiting" THEN "sending" ELSE @]
            ELSE [conns[c] EXCEPT !.q = @ + 1]]
  /\ UNCHANGED <<bus, notSse>>

\* the kiosk's client goes away
client_disconnect(c) ==
  /\ conns[c].client = "connected"
  /\ conns' = [conns EXCEPT ![c].client = "disconnected"]
  /\ UNCHANGED <<bus, nev, notSse>>

\* the stream of a disconnected client ends: is_disconnected() answers True
\* and the loop breaks, or the response task is cancelled and event_stream
\* swallows the CancelledError; neither touches the tasks it created
event_stream_stop(c) ==
  /\ conns[c].client = "disconnected"
  /\ conns[c].stream \in {"sending", "waiting"}
  /\ conns' = [conns EXCEPT ![c].stream = "ended"]
  /\ UNCHANGED <<bus, nev, notSse>>

\* the subscribe generator of an ended stream is finalized once nothing refers
\* to it, which a task suspended in q.get() does (the queue holds the task's
\* future and the bus holds the queue): aclose() runs the finally block
subscribe_close(c) ==
  /\ conns[c].stream = "ended"
  /\ conns[c].gen = "yielded"
  /\ conns' = [conns EXCEPT ![c].gen = "closed"]
  /\ bus' = subscribe_finally(bus, conns[c].channel, c)
  /\ UNCHANGED <<nev, notSse>>

InitSse ==
  /\ NoOrder /\ NoEvents /\ NoAdjust /\ NoStreams
  /\ stock = 0
  /\ stock0 = 0
  /\ ledger = << >>

NextSse ==
  \/ \E c \in Conn, ch \in Channel : event_stream_start(c, ch)
  \/ \E c \in Conn : event_stream_iterate(c)
  \/ \E c \in Conn : heartbeat_tick(c)
  \/ \E ch \in Channel : bus_publish(ch)
  \/ \E c \in Conn : client_disconnect(c)
  \/ \E c \in Conn : event_stream_stop(c)
  \/ \E c \in Conn : subscribe_close(c)

\* the event loop runs every task that is ready and finalizes every generator
\* nothing refers to; when events are published and when clients leave is not
\* the service's to decide
SpecSse ==
  /\ InitSse /\ [][NextSse]_vars
  /\ \A c \in Conn : /\ WF_vars(event_stream_iterate(c))
                     /\ WF_vars(heartbeat_tick(c))
                     /\ WF_vars(event_stream_stop(c))
                     /\ WF_vars(subscribe_close(c))

\* ------------------------------------------- order identifiers alone
\* create_order of one more order today, as far as its identifiers go: both
\* are generated against the orders of the date, then the Order is inserted.
\* No table constraint covers pickup_number or pin_code
create_order_today(pickup_samples, pin_samples, now) ==
  /\ Len(today) < MaxOrders
  /\ today' = Append(today,
       [pickup_number |->
          generate_pickup_number({ today[i].pickup_number : i \in DOMAIN today },
                                 pickup_samples, now),
        pin_code |->
          generate_pin_code({ today[i].pin_code : i \in DOMAIN today },
                            pin_samples, now)])
  /\ UNCHANGED <<orderVars, busVars, adjVars, sseVars, faultVars, restartVars, auxVars,
                 stock, ledger>>

InitIds ==
  /\ NoOrder /\ NoEvents /\ NoAdjust /\ NoStreams
  /\ stock = 0
  /\ stock0 = 0
  /\ ledger = << >>

NextIds ==
  \E pickup_samples \in [1..MaxAttempts -> PickupRange],
     pin_samples \in [1..MaxAttempts -> PinRange],
     now \in 0..MaxClock :
    create_order_today(pickup_samples, pin_samples, now)

SpecIds == InitIds /\ [][NextIds]_vars

\* ------------------------------------ the completion handler, several lines
\* ded.lines: the order's lines; ded.rows: the items that have an availability
\* row; ded.stock: its stock_quantity; ded.refused: the lines whose adjustment
\* the database refuses; ded.pos: 0 before the handler, then the line the
\* loop is at; ded.result: per line attempted, ok or failed
notDeduct == <<orderVars, busVars, adjVars, sseVars, idVars, faultVars, restartVars,
               receipts, inflight, stock, ledger>>

\* _handle_order_completion up to the loop: Order.status COMPLETED is committed
handle_order_completion ==
  /\ ded.pos = 0
  /\ ded' = [ded EXCEPT !.status = "COMPLETED", !.pos = 1]
  /\ UNCHANGED notDeduct

\* one turn of the loop: replenish_or_remove with -quantity commits the new
\* stock and the stock record, or fails (no availability row: 404; database
\* error: 500), rolls its own transaction back and the loop goes on
deduct_line ==
  /\ ded.pos \in 1..Len(ded.lines)
  /\ LET line == ded.lines[ded.pos]
         fails == line.item \notin ded.rows \/ ded.pos \in ded.refused
     IN ded' = IF fails
               THEN [ded EXCEPT !.result = Append(@, "failed"),
                                !.pos = after_line_failure(ded.pos, Len(ded.lines))]
               ELSE [ded EXCEPT
                       !.stock[line.item] = replenish_or_remove(@, -line.quantity),
                       !.ledger = Append(@, [item |-> line.item,
                           change_quantity |-> recorded_change(-line.quantity,
                              effective_change(ded.stock[line.item], -line.quantity))]),
                       !.result = Append(@, "ok"),
                       !.pos = ded.pos + 1]
  /\ UNCHANGED notDeduct

\* an order of one to MaxLines lines has just entered SENT_TO_KDS
InitDeduct ==
  /\ NoOrder /\ NoEvents /\ NoAdjust
  /\ bus = EmptyBus /\ conns = [c \in Conn |-> NoConn] /\ nev = 0
  /\ today = << >> /\ nfault = 0 /\ nrestart = 0 /\ receipts = NoReceipts
  /\ inflight = << >>
  /\ stock = 0 /\ stock0 = 0 /\ ledger = << >>
  /\ \E n \in 1..MaxLines :
       \E ls \in [1..n -> [item : Item, quantity : 1..MaxQty]],
          rs \in SUBSET Item, st \in [Item -> 0..MaxStock], rf \in SUBSET (1..n) :
         ded = [lines |-> ls, rows |-> rs, stock |-> st, refused |-> rf,
                pos |-> 0, status |-> "PENDING", ledger |-> << >>, result |-> << >>]

NextDeduct == handle_order_completion \/ deduct_line

SpecDeduct == InitDeduct /\ [][NextDeduct]_vars

\* ------------------------------------- several orders on the same item
notInflight == <<orderVars, busVars, adjVars, sseVars, idVars, faultVars, restartVars,
                 ded, receipts>>

\* create_order for one line of an active item: the stock check of
\* _validate_and_calculate_totals compares the quantity with the stock held
\* now and writes nothing to the item's availability
create_order_on_item(q) ==
  /\ Len(inflight) < MaxOrders
  /\ validate_and_calculate_totals("active", stock, q) = 200
  /\ inflight' = Append(inflight, [quantity |-> q, status |-> "PENDING", applied |-> 0])
  /\ UNCHANGED <<notInflight, stock, ledger>>

\* _handle_order_completion of order k: status COMPLETED, then
\* decrease_inventory_for_completed_order calls replenish_or_remove(-quantity)
complete_order(k) ==
  /\ k \in DOMAIN inflight
  /\ inflight[k].status = "PENDING"
  /\ stock' = replenish_or_remove(stock, -inflight[k].quantity)
  /\ ledger' = Append(ledger, recorded_change(-inflight[k].quantity,
                                effective_change(stock, -inflight[k].quantity)))
  /\ inflight' = [inflight EXCEPT ![k].status = "COMPLETED",
                                  ![k].applied = effective_change(stock, -inflight[k].quantity)]
  /\ UNCHANGED notInflight

\* order k ends in a terminal state other than SENT_TO_KDS: its handler
\* writes the status and leaves the stock alone
close_order(k, st) ==
  /\ k \in DOMAIN inflight
  /\ inflight[k].status = "PENDING"
  /\ inflight' = [inflight EXCEPT ![k].status = st]
  /\ UNCHANGED <<notInflight, stock, ledger>>

\* an item with some stock and no order yet
InitInflight ==
  /\ NoOrder /\ NoEvents /\ NoAdjust /\ NoStreams
  /\ stock \in 0..MaxStock
  /\ stock0 = stock
  /\ ledger = << >>

NextInflight ==
  \/ \E q \in 1..MaxQty : create_order_on_item(q)
  \/ \E k \in 1..MaxOrders : complete_order(k)
  \/ \E k \in 1..MaxOrders, st \in {"CANCELED", "FAILED"} : close_order(k, st)

SpecInflight == InitInflight /\ [][NextInflight]_vars

\* no handler task is queued or waiting and no timer is pending
Quiescent ==
  /\ fsm # None
  /\ \A i \in DOMAIN entries : entries[i].hp = "done" /\ entries[i].tp \in {"none", "done"}


\* ================================================================ claims

\* C1: every accepted transition_state call changes the committed
\* current_state from `from` to `to` with (from, trigger_event) -> to a row of
\* the transition table, and current_state changes in no other way
C1_TableOnly ==
  [][ /\ (fsm' # fsm => version' # version)
      /\ (version' # version /\ fsm # None =>
            LET l == log'[Len(log')] IN
            /\ can_transition(fsm, l.trigger_event)
            /\ fsm' = next_state(fsm, l.trigger_event)) ]_vars

\* C2: transition_state calls on one order are serialized: no two committed
\* transitions were computed from the same read of the FSM row
C2_Serialized ==
  \A i, j \in DOMAIN hist : i # j => hist[i].rver # hist[j].rver

\* C3: once the committed state is terminal it never changes
C3_TerminalFrozen ==
  [][ (fsm \in State /\ is_terminal(fsm)) => fsm' = fsm ]_vars

\* C4: a call whose (state read, event) pair is not in the table returns
\* False, leaves current_state and the contexts unchanged, arms or cancels no
\* timer, publishes nothing and dispatches no handler
C4_InvalidRejected ==
  [][ ncalls' # ncalls /\ ~can_transition(lastCall'.read, lastCall'.ev) =>
        /\ lastCall'.ok = FALSE
        /\ fsm' = fsm /\ ctx' = ctx /\ log' = log
        /\ sse' = sse
        /\ Len(entries') = Len(entries)
        /\ \A j \in DOMAIN entries :
             \/ entries'[j].tp = entries[j].tp
             \/ /\ entries[j].tp = "armed" /\ entries'[j].tp = "done"
                /\ timer_event(entries[j].state) = lastCall'.ev ]_vars

C4_Witness ==
  /\ ncalls > 0
  /\ ~can_transition(lastCall.read, lastCall.ev)
  /\ lastCall.ok = FALSE
  /\ lastCall.read = "CANCELED_BY_USER"

\* C5: the committed lifecycle log of an order is a chain that starts with
\* (no from_state, INIT) and ends in the committed current_state
C5_LogChain ==
  fsm # None =>
    /\ log[1].from_state = None /\ log[1].to_state = "INIT"
    /\ \A k \in 2..Len(log) : log[k].from_state = log[k-1].to_state
    /\ log[Len(log)].to_state = fsm

\* C6: when an event is submitted again after a submission of it succeeded,
\* the first is one committed state change with one STATE_CHANGED event, and
\* the second is accepted only as a table transition out of the new state
C6_OnceOnly ==
  \A i, j \in DOMAIN hist :
    i < j /\ hist[i].ev # None /\ hist[i].ev = hist[j].ev =>
      /\ can_transition(hist[j].was, hist[j].ev)
      /\ hist[j].to = next_state(hist[j].was, hist[j].ev)
      /\ Cardinality({ m \in DOMAIN sse : sse[m].trigger_event = hist[i].ev
                                          /\ sse[m].previous_state = hist[i].read }) = 1

AllOk == \A g \in Gateway : answers[g] \subseteq {"ok"}

\* C7: every gateway answers with success within its step deadline and the
\* kiosk sends no command: the order ends in SENT_TO_KDS, status COMPLETED,
\* and the stock is reduced by the ordered quantity
C7_HappyPath ==
  Quiescent /\ AllOk /\ ncmd = 0 =>
    fsm = "SENT_TO_KDS" /\ status = "COMPLETED" /\ stock = stock0 - qty

\* C8: the subscriber receives the STATE_CHANGED events in the order of the
\* committed transitions: the states received are the states committed, from
\* INIT to the current one
C8_EventsFollowCommits ==
  /\ Len(sse) = Len(hist)
  /\ \A k \in DOMAIN sse : sse[k].state = hist[k].to
  /\ fsm # None => sse[Len(sse)].state = fsm

C8_Witness ==
  /\ Quiescent
  /\ fsm = "SENT_TO_KDS"
  /\ [k \in DOMAIN sse |-> sse[k].state] =
       <<"INIT", "AWAITING_PAYMENT", "AWAITING_PRINTING", "AWAITING_KDS", "SENT_TO_KDS">>

Triggered(ev) == \E k \in DOMAIN log : log[k].trigger_event = ev

\* C9: payment is called only after FISCALIZATION_SUCCEEDED, the printer only
\* after PAYMENT_SUCCEEDED, the KDS only after PRINTING_SUCCEEDED; when
\* fiscalization fails the order ends in UNSUCCESSFUL_FISCALIZATION with
\* status FAILED and payment, printer and KDS are never called
C9_GatewayOrder ==
  /\ calls["payment"] > 0 => Triggered("FISCALIZATION_SUCCEEDED")
  /\ calls["printer"] > 0 => Triggered("PAYMENT_SUCCEEDED")
  /\ calls["kds"] > 0 => Triggered("PRINTING_SUCCEEDED")
  /\ answers["fiscal"] # {} /\ "ok" \notin answers["fiscal"] =>
       /\ calls["payment"] = 0 /\ calls["printer"] = 0 /\ calls["kds"] = 0
       /\ fsm = "UNSUCCESSFUL_FISCALIZATION"
       /\ (Quiescent => status = "FAILED")

C9_Witness ==
  /\ Quiescent
  /\ answers["fiscal"] = {"fail"}
  /\ fsm = "UNSUCCESSFUL_FISCALIZATION"
  /\ status = "FAILED"

CancelledDuringPayment ==
  \E k \in DOMAIN hist :
    hist[k].ev = "USER_CANCELED" /\ "AWAITING_PAYMENT" \in hist[k].waiting

\* C10: after CANCEL_ORDER was accepted while the payment call was in flight
\* the order stays CANCELED_BY_USER with status CANCELLED; whatever the
\* payment handler submits afterwards is rejected
C10_CancelWins ==
  CancelledDuringPayment =>
    /\ fsm = "CANCELED_BY_USER"
    /\ status \in {"PENDING", "CANCELLED"}
    /\ (Quiescent => status = "CANCELLED")


PaymentTimedOut == "timeout" \in answers["payment"]

C12_DeductOnlySentToKds ==
  (stock # stock0 \/ ledger # <<>>) => fsm = "SENT_TO_KDS"

\* C14: Order.status and the FSM state agree in every reachable state
C14_StatusAgrees ==
  fsm # None =>
    \/ status = "PENDING"
    \/ status = "COMPLETED" /\ fsm = "SENT_TO_KDS"
    \/ /\ status = "FAILED"
       /\ fsm \in {"UNSUCCESSFUL_FISCALIZATION", "UNSUCCESSFUL_PAYMENT",
                   "PRINTING_FAILED", "SENT_TO_KDS_FAILED"}
    \/ status = "CANCELLED" /\ fsm \in {"CANCELED_BY_USER", "CANCELED_BY_TIMEOUT"}

\* C15: once Order.status is COMPLETED, FAILED or CANCELLED it never changes
C15_StatusFrozen ==
  [][ (status \in {"COMPLETED", "FAILED", "CANCELLED"}) => status' = status ]_vars


\* C13: create_order with a line whose item is missing or inactive, or whose
\* quantity exceeds the item's stock_quantity, answers 400 and leaves no
\* Order, no OrderItem, no FSM runtime, publishes nothing, starts no handler
C13_RejectedLeavesNothing ==
  [][ (/\ lastCreate' # lastCreate
       /\ \/ lastCreate'.item # "active"
          \/ lastCreate'.quantity > stock) =>
        /\ lastCreate'.http = 400
        /\ UNCHANGED <<fsm, status, ctx, log, qty, sse, entries, version>> ]_vars

C13_Witness ==
  /\ lastCreate.http = 400
  /\ lastCreate.item = "active"
  /\ lastCreate.quantity > stock
  /\ fsm = None /\ sse = << >> /\ entries = << >>


RECURSIVE SumSeq(_)
SumSeq(seq) == IF seq = << >> THEN 0 ELSE seq[1] + SumSeq(Tail(seq))

\* whether, applying the requested changes seq in order to a stock c, some
\* removal asks for more than the stock then held
RECURSIVE SomeRemovalExceeds(_, _)
SomeRemovalExceeds(seq, c) ==
  IF seq = << >> THEN FALSE
  ELSE \/ (seq[1] < 0 /\ -seq[1] > c)
       \/ SomeRemovalExceeds(Tail(seq), replenish_or_remove(c, seq[1]))

LastClamped == lastAdj.quantity < 0 /\ -lastAdj.quantity > lastAdj.initial_qty

\* C16: after any sequence of replenish_or_remove calls with signed
\* quantities, from the administrator or from order completion, the item's
\* stock_quantity is >= 0
C16_StockNonNegative == stock >= 0

C16_Witness ==
  /\ nadj > 1
  /\ LastClamped
  /\ lastAdj.initial_qty > 0
  /\ stock = 0

\* C17: the sum of change_quantity over the item's stock records equals the
\* item's stock_quantity (stock 0 and no records at the start)
C17_LedgerSumsToStock == SumSeq(ledger) = stock

\* C17 as the code has it: the records hold the requested quantities, so their
\* sum equals the stock_quantity as long as no removal asked for more than the
\* stock held, and is never above it
C17_LedgerSumsToStockUnlessClamped ==
  /\ SumSeq(ledger) <= stock
  /\ ~SomeRemovalExceeds(ledger, 0) => SumSeq(ledger) = stock

C17_Witness ==
  /\ Len(ledger) >= 3
  /\ \E k \in DOMAIN ledger : ledger[k] < 0
  /\ ~SomeRemovalExceeds(ledger, 0)
  /\ stock > 0
  /\ SumSeq(ledger) = stock

\* C18: replenish_or_remove with quantity delta on stock c sets the stock to
\* c + delta when delta >= 0 or |delta| <= c and to 0 otherwise, answers with
\* that quantity and appends one stock record holding the requested delta
C18_AdjustSemantics ==
  [][ nadj' # nadj =>
        LET c == stock
            delta == lastAdj'.quantity
        IN /\ lastAdj'.initial_qty = c
           /\ stock' = IF delta >= 0 \/ -delta <= c THEN c + delta ELSE 0
           /\ lastAdj'.stock_quantity = stock'
           /\ ledger' = Append(ledger, delta) ]_vars

C18_Witness ==
  /\ nadj > 0
  /\ LastClamped
  /\ lastAdj.stock_quantity = 0
  /\ ledger[Len(ledger)] = lastAdj.quantity
  /\ ledger[Len(ledger)] < -lastAdj.initial_qty


\* C19: events published in some order to a channel are received in that
\* order by a subscriber, also across an overflow of its queue: its queue is
\* in publish order and holds only events published after the last it received
C19_OrderKept ==
  /\ \A k \in 1..(Len(rq) - 1) : rq[k] < rq[k + 1]
  /\ rq # << >> => lastRecv < rq[1]

C19_Witness ==
  /\ gap
  /\ lastRecv > per_queue_max
  /\ rq # << >>

\* C20: the queue of a subscriber that does not read holds, after n
\* publishes, exactly the last min(n, per_queue_max) events in publish order,
\* and no publish waited
C20_KeepsLatest ==
  LET m == IF npub < per_queue_max THEN npub ELSE per_queue_max IN
  /\ idle = [k \in 1..m |-> npub - m + k]
  /\ ~waited

C20_Witness ==
  /\ npub = per_queue_max + 50
  /\ Len(idle) = per_queue_max
  /\ idle[1] = 51
  /\ idle[Len(idle)] = npub


\* C21: after any sequence of subscribe, publish and unsubscribe operations the
\* bus holds no channel key whose subscriber set is empty, and no queue of a
\* subscription that has completed
C21_BusClean ==
  /\ \A ch \in bus.keys : bus.subs[ch] # {}
  /\ \A c \in Conn : conns[c].gen = "closed" => \A ch \in Channel : c \notin bus.subs[ch]

\* both subscriptions of one channel have completed, the second as the last
\* subscriber of the channel, and the channel's key is gone
C21_Witness ==
  /\ conns[1].gen = "closed" /\ conns[2].gen = "closed"
  /\ conns[1].channel = conns[2].channel
  /\ bus.keys = {}
  /\ nev > 0

\* C22: after the client of an SSE connection disconnects, the queue the
\* stream registered is eventually no longer in any channel's subscriber set
C22_QueueRemovedAfterDisconnect ==
  \A c \in Conn :
    (conns[c].client = "disconnected") ~> (\A ch \in Channel : c \notin bus.subs[ch])


\* C23: no two orders of one order_date have the same pickup_number, and no
\* two have the same pin_code
C23_UniqueIds ==
  \A i, j \in DOMAIN today :
    i # j => /\ today[i].pickup_number # today[j].pickup_number
             /\ today[i].pin_code # today[j].pin_code


\* C24: order creation is atomic: in every committed state the Order, its
\* OrderItem, its FSM runtime row and the initial lifecycle log (None -> INIT)
\* exist together or not at all, and a create_order that failed has left none
C24_CreationAtomic ==
  /\ (status # None) = (fsm # None)
  /\ (status # None) = (qty > 0)
  /\ (status # None) = (log # << >>)
  /\ log # << >> => log[1].from_state = None /\ log[1].to_state = "INIT"
  /\ lastCreate.http \in {400, 500} =>
       status = None /\ fsm = None /\ qty = 0 /\ log = << >>

\* a create_order failed at the commit of initialize_fsm: answered 500, no
\* row left, the INIT event already published
C24_Witness ==
  /\ lastCreate.http = 500
  /\ lastCreate.item = "active"
  /\ status = None /\ fsm = None /\ log = << >>
  /\ Len(sse) = 1


\* C25: a restart of the process with the order in a non-terminal state
\* appends a recovery log entry (from = to = the current state, actor SYSTEM),
\* re-arms the state's timer and dispatches the state's entry handler again
C25_RecoveryOnRestart ==
  [][ (nrestart' = nrestart + 1 /\ ~is_terminal(fsm)) =>
        /\ log' = Append(log, [from_state |-> fsm, to_state |-> fsm,
                               trigger_event |-> None, actor_type |-> "SYSTEM"])
        /\ \E i \in DOMAIN entries' :
             /\ entries'[i].state = fsm
             /\ entries'[i].hp = "queued"
             /\ entries'[i].tp = timer_on_entry(fsm) ]_vars


\* C26: a retry command sent while is_retry_allowed is false for the order's
\* state is rejected, and the FSM state, the order status and the contexts
\* stay as they were
C26_RetryOnlyWhenAllowed ==
  [][ (/\ ncmd' = ncmd + 1
       /\ \E a \in RetryCommand : lastCall'.ev = event_mapping(a)
       /\ ~is_retry_allowed(fsm)) =>
        /\ ~lastCall'.ok
        /\ UNCHANGED <<fsm, status, ctx>> ]_vars


\* C27: every transition_state call rejected as invalid leaves a committed
\* lifecycle log entry whose from_state and to_state are the state the call
\* read and whose trigger_event is the rejected event
C27_InvalidLogged ==
  [][ (ncalls' = ncalls + 1 /\ ~lastCall'.ok) =>
        /\ Len(log') = Len(log) + 1
        /\ log'[Len(log')].from_state = lastCall'.read
        /\ log'[Len(log')].to_state = lastCall'.read
        /\ log'[Len(log')].trigger_event = lastCall'.ev ]_vars


\* C28: at most one timeout timer of the order is pending, and a timer armed
\* on entry to a state is no longer pending once the order has left that state
C28_TimerCancelledOnLeave ==
  /\ Cardinality({ i \in DOMAIN entries : entries[i].tp = "armed" }) <= 1
  /\ \A i \in DOMAIN entries : entries[i].tp = "armed" => entries[i].state = fsm


\* C29: a state timer that fires while the order is still in its state
\* (AWAITING_PAYMENT or AWAITING_KDS) goes on past its own cancellation, and
\* its submission completes: the transition to the timeout state is committed,
\* logged with actor SYSTEM, published once and the entry handler of the new
\* state is dispatched
C29_TimerSubmissionCompletes ==
  /\ [][ \A i \in DOMAIN entries :
           /\ (/\ entries[i].tp = "armed" /\ entries'[i].tp # "armed"
               /\ entries[i].state = fsm
               /\ timer_event(entries[i].state) # None) => entries'[i].tp = "mid"
           /\ (entries[i].tp = "mid" /\ entries'[i].tp # "mid") =>
                LET ev == timer_event(entries[i].state)
                    to == next_state(entries[i].state, ev)
                IN /\ fsm' = to
                   /\ log' = Append(log, [from_state |-> entries[i].state, to_state |-> to,
                                          trigger_event |-> ev, actor_type |-> "SYSTEM"])
                   /\ sse' = Append(sse, [state |-> to, previous_state |-> entries[i].state,
                                          trigger_event |-> ev])
                   /\ Len(entries') = Len(entries) + 1
                   /\ entries'[Len(entries')].state = to
                   /\ entries'[Len(entries')].hp = "queued" ]_vars
  /\ (\E i \in DOMAIN entries : entries[i].tp = "mid")
       ~> (\A i \in DOMAIN entries : entries[i].tp # "mid")

\* the AWAITING_KDS timer fired in its state and its submission has completed
C29_Witness ==
  /\ fsm = "SENT_TO_KDS_FAILED"
  /\ \E i \in DOMAIN entries : entries[i].state = "AWAITING_KDS" /\ entries[i].tp = "done"
  /\ log[Len(log)].trigger_event = "KDS_ERROR_OR_NO_RESPONSE"
  /\ log[Len(log)].actor_type = "SYSTEM"
  /\ sse[Len(sse)].state = "SENT_TO_KDS_FAILED"
  /\ entries[Len(entries)].state = "SENT_TO_KDS_FAILED"


\* C30: an entry handler is dispatched, and so started, only after the
\* transaction that put the order into its state has committed: the i-th
\* handler task there is was created for the state the i-th commit wrote
C30_HandlerAfterCommit ==
  \A i \in DOMAIN entries : i \in DOMAIN hist /\ hist[i].to = entries[i].state

\* a create_order was refused at its commit and started no handler; the next
\* one committed, and the handlers of INIT and AWAITING_PAYMENT have started
C30_Witness ==
  /\ nfault = 1
  /\ Len(entries) >= 2
  /\ entries[1].state = "INIT" /\ entries[1].hp = "done"
  /\ entries[2].state = "AWAITING_PAYMENT" /\ entries[2].hp = "waiting"
  /\ hist[2].to = "AWAITING_PAYMENT"


\* C31: while the gateway call of a saga handler is in flight the handler's
\* session has no transaction in progress and holds no FSM row read before
\* the call
C31_NoTransactionAcrossGateway ==
  \A i \in DOMAIN entries :
    entries[i].hp = "waiting" => entries[i].tx = "none" /\ entries[i].loaded = None


\* C32: the entry handler of a non-terminal state runs once per entry into
\* the state and no non-terminal state is entered twice, so each gateway is
\* called at most once for the order
C32_HandlerOncePerEntry ==
  /\ \A g \in Gateway : calls[g] <= 1
  /\ \A g \in Gateway :
       calls[g] = Cardinality({ i \in DOMAIN entries :
                                  /\ ~is_terminal(entries[i].state)
                                  /\ gateway_of(entries[i].state) = g
                                  /\ entries[i].hp \in {"waiting", "done"} })
  /\ \A i, j \in DOMAIN entries :
       (i # j /\ ~is_terminal(entries[i].state)) => entries[i].state # entries[j].state

\* the four handlers have run and each gateway has been called once
C32_Witness ==
  /\ Quiescent
  /\ fsm = "SENT_TO_KDS"
  /\ \A g \in Gateway : calls[g] = 1


\* C33: once the FSM is in a terminal state and no handler task or timer of
\* the order is left to run, Order.status is the status of that terminal
\* state, a restart between the commit and the handler run included
C33_StatusFollowsTerminal ==
  (/\ fsm # None /\ is_terminal(fsm)
   /\ \A i \in DOMAIN entries : /\ entries[i].hp \notin {"queued", "waiting"}
                                /\ entries[i].tp \notin {"armed", "mid"})
    => status = terminal_status(fsm)


\* C34: while the client of an SSE stream is connected the stream has not
\* ended, and no event of its subscription has been taken by a read the
\* stream abandoned
C34_EveryEventWritten ==
  \A c \in Conn :
    conns[c].client = "connected" => conns[c].stream # "ended" /\ conns[c].lost = 0


\* the stock records the completion handler owes: one per line that has an
\* availability row and is not refused, with -quantity, in line order
RECURSIVE OwedRecords(_, _, _, _)
OwedRecords(lines, rows, refused, k) ==
  IF k > Len(lines) THEN << >>
  ELSE IF lines[k].item \in rows /\ k \notin refused
       THEN <<[item |-> lines[k].item, change_quantity |-> -lines[k].quantity]>>
              \o OwedRecords(lines, rows, refused, k + 1)
       ELSE OwedRecords(lines, rows, refused, k + 1)

\* C35: once the completion handler is through, every line has been attempted
\* once, each line that could be adjusted has its record with -quantity
\* whatever happened to the other lines, and Order.status is COMPLETED
C35_EveryLineAttempted ==
  /\ ded.pos >= 1 => ded.status = "COMPLETED"
  /\ ded.pos > Len(ded.lines) =>
       /\ Len(ded.result) = Len(ded.lines)
       /\ ded.ledger = OwedRecords(ded.lines, ded.rows, ded.refused, 1)

\* the first line failed for want of an availability row, the second was
\* adjusted
C35_Witness ==
  /\ ded.pos > Len(ded.lines)
  /\ ded.result = <<"failed", "ok">>
  /\ ded.lines[1].item \notin ded.rows
  /\ Len(ded.ledger) = 1
  /\ ded.status = "COMPLETED"


\* C36: every STATE_CHANGED event on the kiosk's stream reports a state that
\* was committed as the order's FSM state: the k-th event is that of the k-th
\* commit
C36_PublishedStatesCommitted ==
  \A k \in DOMAIN sse : k \in DOMAIN hist /\ sse[k].state = hist[k].to


\* C37: a SlipReceipt row exists for the order only if its PAYMENT_SUCCEEDED
\* transition was accepted, so an order that ended cancelled or unpaid has none
C37_SlipOnlyIfPaid ==
  /\ receipts.slip > 0 => Triggered("PAYMENT_SUCCEEDED")
  /\ (Quiescent /\ fsm \in {"CANCELED_BY_USER", "CANCELED_BY_TIMEOUT",
                            "UNSUCCESSFUL_PAYMENT"}) => receipts.slip = 0


\* C38: stock is deducted at most once for the order: over handler runs,
\* repeated and late events, timer fires and a restart, at most one stock
\* record is written for its line, and it asks for -quantity
C38_DeductedOnce ==
  /\ Len(ledger) <= 1
  /\ \A k \in DOMAIN ledger : ledger[k] = -qty

\* C38 witness: the order was completed and deducted once, the KDS state
\* timer then overwrote the state with its late event, and the process was
\* restarted afterwards
C38_Witness ==
  /\ Len(ledger) = 1 /\ ledger[1] = -qty
  /\ fsm = "SENT_TO_KDS_FAILED"
  /\ nrestart = 1


\* C39: with several orders on the same item in flight at once, every order
\* that reaches COMPLETED has the stock of its item reduced by exactly the
\* ordered quantity: the clamp at zero never truncates its deduction
C39_NoOversell ==
  \A k \in DOMAIN inflight :
    inflight[k].status = "COMPLETED" => inflight[k].applied = -inflight[k].quantity


\* C40: without a restart every created order eventually reaches a terminal
\* FSM state, whatever the gateways answer, even when a gateway never answers
\* or a handler's event submission fails
C40_EventuallyTerminal == (fsm # None) ~> is_terminal(fsm)

====
